---- MODULE Spec2Model ----
(***************************************************************************)
(* Model of uniffi_udl/src/converters/enum_.rs: the four APIConverter      *)
(* impls that turn an `enum` block or an `[Enum] interface` block into an  *)
(* EnumMetadata or an ErrorMetadata::Enum.                                 *)
(*                                                                         *)
(* Strings that are only compared are TLA+ strings.  Doc comments are      *)
(* sequences of one-character strings, so that convert_docstring can be    *)
(* computed.  Option<T> is a sequence of length 0 (None) or 1 (Some(x)).   *)
(* Result<T> is a record [ok, value] or [ok, error].                       *)
(***************************************************************************)
EXTENDS Integers, Sequences, FiniteSets, TLC

VARIABLES node, ci, ci0, entry, result, log, pc

vars == <<node, ci, ci0, entry, result, log, pc>>

\* ---------------------------------------------------------------- bounds
MaxLen == 3

MaxMembers == 3

\* ------------------------------------------------------- Option / Result
None == <<>>

Some(x) == <<x>>

Ok(v) == [ok |-> TRUE, value |-> v]

Err(e) == [ok |-> FALSE, error |-> e]

\* Sequences over S of length at most n.
SeqUpTo(S, n) == UNION {[1..k -> S] : k \in 0..n}

\* ------------------------------------------------------------ input sets
LiteralNames == {"one", "two"}

\* Raw doc-comment texts: an indented one and an already canonical one.
DocTexts == {<<" ", "a">>, <<"a">>}

DocOptions == {None} \cup {Some(d) : d \in DocTexts}

\* weedle::EnumValueDefinition analogue: a literal with its doc comment.
Literals == [value : LiteralNames, docstring : DocOptions]

\* One attribute of an extended attribute list, by the way EnumAttributes
\* classifies it.
AttributeKinds == {"NonExhaustive", "Unsupported"}

AttributeOptions == {None} \cup {Some(<<a>>) : a \in AttributeKinds}

\* weedle::interface::InterfaceMember: an operation, or another kind.
OperationMembers == [kind : {"Operation"}, name : LiteralNames, wellformed : BOOLEAN]

OtherMembers == [kind : {"Attribute", "Const"}, name : {"one"}, wellformed : {TRUE}]

Members == OperationMembers \cup OtherMembers

InheritanceOptions == {None, Some("Parent")}

\* weedle::EnumDefinition
EnumDefinitions ==
    [shape : {"enum"}, identifier : {"Testing"}, attributes : AttributeOptions,
     docstring : DocOptions, values : SeqUpTo(Literals, MaxLen)]

\* weedle::InterfaceDefinition
InterfaceDefinitions ==
    [shape : {"interface"}, identifier : {"Testing"}, attributes : AttributeOptions,
     docstring : DocOptions, inheritance : InheritanceOptions,
     members : SeqUpTo(Members, MaxMembers)]

\* --------------------------------------------------- collaborators
\* Strips the indentation of a one-line doc comment.
RECURSIVE convert_docstring(_)
convert_docstring(s) ==
    IF s # <<>> /\ Head(s) = " " THEN convert_docstring(Tail(s)) ELSE s

\* InterfaceCollector::module_path
module_path(c) == c.module_path

\* EnumAttributes::try_from(Option<&ExtendedAttributeList>)
EnumAttributes_try_from(attrs) ==
    IF attrs = None THEN Ok({})
    ELSE LET list == attrs[1] IN
         IF \E i \in 1..Len(list) : list[i] \notin {"NonExhaustive"}
         THEN Err([kind |-> "MalformedAttributes", member |-> None])
         ELSE Ok({list[i] : i \in 1..Len(list)})

\* EnumAttributes::contains_non_exhaustive_attr
contains_non_exhaustive_attr(attributes) == "NonExhaustive" \in attributes

\* APIConverter<VariantMetadata> for OperationInterfaceMember: the delegated
\* per-member converter.  It may fail; it registers nothing.
OperationConvert(t, c) ==
    [res |-> IF t.wellformed
             THEN Ok([name |-> t.name, discr |-> None, fields |-> <<>>,
                      docstring |-> None])
             ELSE Err([kind |-> "MemberConversion", member |-> Some(t)]),
     ci |-> c]

\* ----------------------------------------------------------- trace events
\* What a conversion did, in the order it did it.
Ev(e, i) == [ev |-> e, i |-> i]

\* ------------------------------------------------ enum block (A and B)
\* Mutant: an absent doc comment becomes the empty string (unwrap_or_default).
DeclDocstring_Default(self) ==
    IF self.docstring = None THEN Some(<<>>)
    ELSE Some(convert_docstring(self.docstring[1]))

\* self.docstring.as_ref().map(|v| convert_docstring(&v.0))
DeclDocstring(self) ==
    IF self.docstring = None THEN None
    ELSE Some(convert_docstring(self.docstring[1]))

\* Mutant: the namespace is stored in place of the module path.
ModulePathField_Namespace(self, c) == c.namespace

\* ci.module_path() as the module_path field of the record
ModulePathField(self, c) == module_path(c)

\* The closure of entry point A: one literal to one VariantMetadata.
EnumVariant(v) ==
    [name |-> v.value, discr |-> None, fields |-> <<>>,
     docstring |-> IF v.docstring = None THEN None
                   ELSE Some(convert_docstring(v.docstring[1]))]

\* The closure of entry point B: the doc comment is cloned as it is.
ErrorEnumVariant(v) ==
    [name |-> v.value, discr |-> None, fields |-> <<>>,
     docstring |-> IF v.docstring = None THEN None
                   ELSE Some(v.docstring[1])]

\* Mutant: a literal that repeats an earlier one is dropped.
EnumVariants_Dedup(self) ==
    LET list == self.values
        keep == {i \in 1..Len(list) : \A j \in 1..(i - 1) : list[j].value # list[i].value}
        Nth(n) == CHOOSE i \in keep : Cardinality({j \in keep : j < i}) = n - 1
    IN [n \in 1..Cardinality(keep) |-> EnumVariant(list[Nth(n)])]

\* self.values.body.list.iter().map(..).collect::<Result<Vec<_>>>()? (A);
\* the closure never fails.
EnumVariants(self) ==
    [i \in 1..Len(self.values) |-> EnumVariant(self.values[i])]

\* The same traversal in entry point B.
ErrorEnumVariants(self) ==
    [i \in 1..Len(self.values) |-> ErrorEnumVariant(self.values[i])]

\* Entry point A: APIConverter<EnumMetadata> for weedle::EnumDefinition
ConvertEnum(self, c) ==
    LET attributes == EnumAttributes_try_from(self.attributes) IN
    IF ~attributes.ok
    THEN [res |-> Err(attributes.error), log |-> <<Ev("attributes", 0)>>, ci |-> c]
    ELSE [res |-> Ok([module_path |-> ModulePathField(self, c),
                      name |-> self.identifier,
                      variants |-> EnumVariants(self),
                      non_exhaustive |-> contains_non_exhaustive_attr(attributes.value),
                      docstring |-> DeclDocstring(self)]),
          log |-> <<Ev("attributes", 0), Ev("module_path", 0)>>,
          ci |-> c]

\* is_flat: true
IsFlatEnum == TRUE

\* Entry point B: APIConverter<ErrorMetadata> for weedle::EnumDefinition
ConvertErrorEnum(self, c) ==
    LET attributes == EnumAttributes_try_from(self.attributes) IN
    IF ~attributes.ok
    THEN [res |-> Err(attributes.error), log |-> <<Ev("attributes", 0)>>, ci |-> c]
    ELSE [res |-> Ok([enum_ |-> [module_path |-> ModulePathField(self, c),
                                 name |-> self.identifier,
                                 variants |-> ErrorEnumVariants(self),
                                 non_exhaustive |->
                                     contains_non_exhaustive_attr(attributes.value),
                                 docstring |-> DeclDocstring(self)],
                      is_flat |-> IsFlatEnum]),
          log |-> <<Ev("attributes", 0), Ev("module_path", 0)>>,
          ci |-> c]

\* ------------------------------------------- interface block (C and D)
\* bail!("interface inheritance is not supported for enum interfaces")
InheritanceError == [kind |-> "InheritanceNotSupported", member |-> None]

\* bail!("interface member type {:?} not supported in enum interface", member)
MemberKindError(member) == [kind |-> "UnsupportedMember", member |-> Some(member)]

\* Mutant: a member of any kind is accepted as a variant.
InterfaceMemberVariant_AnyKind(member, i, c) ==
    IF member.kind = "Operation"
    THEN LET r == OperationConvert(member, c) IN
         [res |-> r.res, log |-> <<Ev("examine", i), Ev("delegate", i)>>, ci |-> r.ci]
    ELSE [res |-> Ok([name |-> member.name, discr |-> None, fields |-> <<>>,
                      docstring |-> None]),
          log |-> <<Ev("examine", i)>>, ci |-> c]

\* The closure of entry points C and D, applied to the i-th member.
InterfaceMemberVariant(member, i, c) ==
    IF member.kind = "Operation"
    THEN LET r == OperationConvert(member, c) IN
         [res |-> r.res, log |-> <<Ev("examine", i), Ev("delegate", i)>>, ci |-> r.ci]
    ELSE [res |-> Err(MemberKindError(member)), log |-> <<Ev("examine", i)>>, ci |-> c]

\* collect::<Result<Vec<_>>>() pulling the mapped iterator from member i on:
\* it stops at the first Err and returns it.
RECURSIVE CollectFrom(_, _, _, _, _)
CollectFrom(members, i, acc, lg, c) ==
    IF i > Len(members) THEN [res |-> Ok(acc), log |-> lg, ci |-> c]
    ELSE LET r == InterfaceMemberVariant(members[i], i, c) IN
         IF r.res.ok
         THEN CollectFrom(members, i + 1, Append(acc, r.res.value), lg \o r.log, r.ci)
         ELSE [res |-> r.res, log |-> lg \o r.log, ci |-> r.ci]

\* Mutant: members that fail are skipped (filter_map(Result::ok)).
RECURSIVE CollectSkipping(_, _, _, _, _)
CollectSkipping(members, i, acc, lg, c) ==
    IF i > Len(members) THEN [res |-> Ok(acc), log |-> lg, ci |-> c]
    ELSE LET r == InterfaceMemberVariant(members[i], i, c) IN
         CollectSkipping(members, i + 1,
                         IF r.res.ok THEN Append(acc, r.res.value) ELSE acc,
                         lg \o r.log, r.ci)

CollectMembers_SkipErrors(members, c) == CollectSkipping(members, 1, <<>>, <<>>, c)

\* Mutant: every member is converted first, then the first error is returned.
RECURSIVE CollectAll(_, _, _, _, _)
CollectAll(members, i, rs, lg, c) ==
    IF i > Len(members)
    THEN IF \E k \in 1..Len(rs) : ~rs[k].ok
         THEN [res |-> rs[CHOOSE k \in 1..Len(rs) :
                                ~rs[k].ok /\ \A j \in 1..(k - 1) : rs[j].ok],
               log |-> lg, ci |-> c]
         ELSE [res |-> Ok([k \in 1..Len(rs) |-> rs[k].value]), log |-> lg, ci |-> c]
    ELSE LET r == InterfaceMemberVariant(members[i], i, c) IN
         CollectAll(members, i + 1, Append(rs, r.res), lg \o r.log, r.ci)

CollectMembers_Eager(members, c) == CollectAll(members, 1, <<>>, <<>>, c)

\* self.members.body.iter().map(..).collect::<Result<Vec<_>>>()
CollectMembers(members, c) == CollectFrom(members, 1, <<>>, <<>>, c)

\* Entry point C after the inheritance check: attributes, module path,
\* variants, docstring.
InterfaceEnumBody(self, c) ==
    LET attributes == EnumAttributes_try_from(self.attributes) IN
    IF ~attributes.ok
    THEN [res |-> Err(attributes.error), log |-> <<Ev("attributes", 0)>>, ci |-> c]
    ELSE LET mp == ModulePathField(self, c)
             vs == CollectMembers(self.members, c)
             lg == <<Ev("attributes", 0), Ev("module_path", 0)>> \o vs.log
         IN IF ~vs.res.ok
            THEN [res |-> vs.res, log |-> lg, ci |-> vs.ci]
            ELSE [res |-> Ok([module_path |-> mp,
                              name |-> self.identifier,
                              variants |-> vs.res.value,
                              non_exhaustive |->
                                  contains_non_exhaustive_attr(attributes.value),
                              docstring |-> DeclDocstring(self)]),
                  log |-> lg, ci |-> vs.ci]

\* Mutant: the inheritance check is missing.
ConvertInterfaceEnum_NoInheritanceCheck(self, c) ==
    LET b == InterfaceEnumBody(self, c) IN
    [res |-> b.res, log |-> <<Ev("inheritance", 0)>> \o b.log, ci |-> b.ci]

\* Entry point C: APIConverter<EnumMetadata> for weedle::InterfaceDefinition
ConvertInterfaceEnum(self, c) ==
    IF self.inheritance # None
    THEN [res |-> Err(InheritanceError), log |-> <<Ev("inheritance", 0)>>, ci |-> c]
    ELSE LET b == InterfaceEnumBody(self, c) IN
         [res |-> b.res, log |-> <<Ev("inheritance", 0)>> \o b.log, ci |-> b.ci]

\* Mutant: the interface form is reported flat.
IsFlatInterface_True == TRUE

\* is_flat: false
IsFlatInterface == FALSE

\* Entry point D after the inheritance check.
ErrorInterfaceBody(self, c) ==
    LET attributes == EnumAttributes_try_from(self.attributes) IN
    IF ~attributes.ok
    THEN [res |-> Err(attributes.error), log |-> <<Ev("attributes", 0)>>, ci |-> c]
    ELSE LET mp == ModulePathField(self, c)
             vs == CollectMembers(self.members, c)
             lg == <<Ev("attributes", 0), Ev("module_path", 0)>> \o vs.log
         IN IF ~vs.res.ok
            THEN [res |-> vs.res, log |-> lg, ci |-> vs.ci]
            ELSE [res |-> Ok([enum_ |-> [module_path |-> mp,
                                         name |-> self.identifier,
                                         variants |-> vs.res.value,
                                         non_exhaustive |->
                                             contains_non_exhaustive_attr(
                                                 attributes.value),
                                         docstring |-> DeclDocstring(self)],
                              is_flat |-> IsFlatInterface]),
                  log |-> lg, ci |-> vs.ci]

\* Mutant: the attributes are interpreted before the inheritance check.
ConvertErrorInterface_AttributesFirst(self, c) ==
    LET attributes == EnumAttributes_try_from(self.attributes) IN
    IF ~attributes.ok
    THEN [res |-> Err(attributes.error), log |-> <<Ev("attributes", 0)>>, ci |-> c]
    ELSE IF self.inheritance # None
         THEN [res |-> Err(InheritanceError),
               log |-> <<Ev("attributes", 0), Ev("inheritance", 0)>>, ci |-> c]
         ELSE LET b == ErrorInterfaceBody(self, c) IN
              [res |-> b.res, log |-> <<Ev("inheritance", 0)>> \o b.log, ci |-> b.ci]

\* Entry point D: APIConverter<ErrorMetadata> for weedle::InterfaceDefinition
ConvertErrorInterface(self, c) ==
    IF self.inheritance # None
    THEN [res |-> Err(InheritanceError), log |-> <<Ev("inheritance", 0)>>, ci |-> c]
    ELSE LET b == ErrorInterfaceBody(self, c) IN
         [res |-> b.res, log |-> <<Ev("inheritance", 0)>> \o b.log, ci |-> b.ci]

\* ------------------------------------------------------- state machine
ModulePaths == {"crate_name", "other_crate"}

Namespaces == {"test", "crate_name"}

\* An item registered earlier in the pass, shaped like the one the repository's
\* test finds in ci.items: enum Earlier {"one","two","one"}.
EarlierEnum(mp) ==
    [tag |-> "Enum",
     meta |-> [module_path |-> mp, name |-> "Earlier",
               variants |-> <<EnumVariant([value |-> "one", docstring |-> None]),
                              EnumVariant([value |-> "two", docstring |-> None]),
                              EnumVariant([value |-> "one", docstring |-> None])>>,
               non_exhaustive |-> FALSE, docstring |-> None]]

\* The InterfaceCollector when a declaration is about to be converted: its
\* module path, its namespace and the items registered so far.
Collectors ==
    {[module_path |-> mp, namespace |-> ns,
      items |-> IF earlier THEN {EarlierEnum(mp)} ELSE {}] :
        mp \in ModulePaths, ns \in Namespaces, earlier \in BOOLEAN}

NoResult == Err([kind |-> "NotRun", member |-> None])

Init ==
    /\ node \in EnumDefinitions \cup InterfaceDefinitions
    /\ ci \in Collectors
    /\ ci0 = ci
    /\ entry = "none"
    /\ result = NoResult
    /\ log = <<>>
    /\ pc = "ready"

Finish(e, out) ==
    /\ entry' = e
    /\ result' = out.res
    /\ log' = out.log
    /\ ci' = out.ci
    /\ pc' = "converted"
    /\ UNCHANGED <<node, ci0>>

CallConvertEnum ==
    /\ pc = "ready" /\ node.shape = "enum"
    /\ Finish("A", ConvertEnum(node, ci))

CallConvertErrorEnum ==
    /\ pc = "ready" /\ node.shape = "enum"
    /\ Finish("B", ConvertErrorEnum(node, ci))

CallConvertInterfaceEnum ==
    /\ pc = "ready" /\ node.shape = "interface"
    /\ Finish("C", ConvertInterfaceEnum(node, ci))

CallConvertErrorInterface ==
    /\ pc = "ready" /\ node.shape = "interface"
    /\ Finish("D", ConvertErrorInterface(node, ci))

\* The caller inserts the record of a successful conversion into the items.
Register ==
    /\ pc = "converted" /\ result.ok
    /\ ci' = [ci EXCEPT !.items = @ \cup
                 {[tag |-> IF entry \in {"A", "C"} THEN "Enum" ELSE "Error",
                   meta |-> result.value]}]
    /\ pc' = "registered"
    /\ UNCHANGED <<node, ci0, entry, result, log>>

\* The caller propagates the error of a failed conversion.
Propagate ==
    /\ pc = "converted" /\ ~result.ok
    /\ pc' = "failed"
    /\ UNCHANGED <<node, ci, ci0, entry, result, log>>

Next ==
    \/ CallConvertEnum
    \/ CallConvertErrorEnum
    \/ CallConvertInterfaceEnum
    \/ CallConvertErrorInterface
    \/ Register
    \/ Propagate

Spec == Init /\ [][Next]_vars

TypeOK ==
    /\ pc \in {"ready", "converted", "registered", "failed"}
    /\ entry \in {"none", "A", "B", "C", "D"}
    /\ result.ok \in BOOLEAN

\* ------------------------------------------------------------ properties
\* A conversion has run and its outcome is in result and log.
Called == pc # "ready"

\* The EnumMetadata of a successful result, unwrapped from ErrorMetadata::Enum.
EnumRecord == IF entry \in {"A", "C"} THEN result.value ELSE result.value.enum_

\* A failed result carries an error and nothing else.
ErrorOnly == ~result.ok /\ DOMAIN result = {"ok", "error"}

Malformed == ~EnumAttributes_try_from(node.attributes).ok

NonOperation(m) == m.kind # "Operation"

\* The member at which the traversal of the body must stop.
Stops(m) == NonOperation(m) \/ ~OperationConvert(m, ci0).res.ok

\* The index of the first member satisfying P, 0 if there is none.
FirstIndex(P(_), ms) ==
    IF \E i \in 1..Len(ms) : P(ms[i])
    THEN CHOOSE i \in 1..Len(ms) : P(ms[i]) /\ \A j \in 1..(i - 1) : ~P(ms[j])
    ELSE 0

IsExamine(e) == e.ev = "examine"

IsDelegate(e) == e.ev = "delegate"

IsMemberEvent(e) == e.ev \in {"examine", "delegate"}

\* C1: a successful conversion of an enum block by A or B yields one variant
\* per literal, in declaration order, named after the literal, with no
\* discriminant and no fields; duplicates are kept.
C1_LiteralsPreserved ==
    (Called /\ entry \in {"A", "B"} /\ result.ok) =>
        LET vs == EnumRecord.variants IN
        /\ Len(vs) = Len(node.values)
        /\ \A i \in 1..Len(node.values) :
              /\ vs[i].name = node.values[i].value
              /\ vs[i].discr = None
              /\ vs[i].fields = <<>>

\* "one", "two", "one" converted successfully.
C1_Witness ==
    /\ pc = "converted" /\ entry \in {"A", "B"} /\ result.ok
    /\ Len(node.values) = 3
    /\ node.values[1].value = "one"
    /\ node.values[2].value = "two"
    /\ node.values[3].value = "one"
    /\ Len(EnumRecord.variants) = 3

\* C2: an Error Record from the enum block (B) is flat, one from the
\* interface block (D) is not, whatever the attributes, variants and context.
C2_Flatness ==
    (Called /\ result.ok) =>
        /\ entry = "B" => result.value.is_flat = TRUE
        /\ entry = "D" => result.value.is_flat = FALSE

C2_Witness ==
    /\ pc = "converted" /\ entry = "D" /\ result.ok
    /\ node.attributes # None
    /\ Len(node.members) = 2
    /\ result.value.is_flat = FALSE

\* C3: in C and D a node with an inheritance clause always fails with the
\* inheritance error and no record; a node without one never gets that error.
C3_InheritanceRejected ==
    (Called /\ entry \in {"C", "D"}) =>
        /\ node.inheritance # None =>
              ErrorOnly /\ result.error = InheritanceError
        /\ node.inheritance = None =>
              (result.ok \/ result.error.kind # InheritanceError.kind)

C3_Witness ==
    /\ pc = "converted" /\ entry \in {"C", "D"}
    /\ node.inheritance # None
    /\ Malformed
    /\ Len(node.members) > 0
    /\ result = Err(InheritanceError)

\* C4 as stated: without inheritance and with well-formed attributes, success
\* needs every member to be an operation, and any non-operation member makes
\* the conversion fail with the unsupported-member-kind error naming such a
\* member.
C4_AsStated ==
    (Called /\ entry \in {"C", "D"} /\ node.inheritance = None /\ ~Malformed) =>
        /\ result.ok => \A i \in 1..Len(node.members) : ~NonOperation(node.members[i])
        /\ (\E i \in 1..Len(node.members) : NonOperation(node.members[i])) =>
              /\ ErrorOnly
              /\ result.error.kind = "UnsupportedMember"
              /\ \E i \in 1..Len(node.members) :
                    /\ NonOperation(node.members[i])
                    /\ result.error = MemberKindError(node.members[i])

\* C4 amended: a non-operation member always makes the conversion fail with
\* no record; the error is the unsupported-member-kind error naming the first
\* non-operation member when every operation before it converts, and the
\* delegated converter's own error otherwise.
C4_MemberKindRejected ==
    (Called /\ entry \in {"C", "D"} /\ node.inheritance = None /\ ~Malformed) =>
        LET ms == node.members
            k == FirstIndex(NonOperation, ms)
        IN /\ result.ok => k = 0
           /\ k # 0 =>
                 /\ ErrorOnly
                 /\ IF \A j \in 1..(k - 1) : OperationConvert(ms[j], ci0).res.ok
                    THEN result.error = MemberKindError(ms[k])
                    ELSE result.error =
                             OperationConvert(ms[FirstIndex(Stops, ms)], ci0).res.error

C4_Witness ==
    /\ pc = "converted" /\ entry \in {"C", "D"}
    /\ node.inheritance = None /\ ~Malformed
    /\ Len(node.members) = 2
    /\ ~NonOperation(node.members[1])
    /\ NonOperation(node.members[2])
    /\ result = Err(MemberKindError(node.members[2]))

\* C5: in A and in B each variant's docstring is the normalized doc comment of
\* its literal (None when there is none), so B's variants equal A's variants
\* for the same node and context.
C5_VariantDocstringsNormalized ==
    (Called /\ entry \in {"A", "B"} /\ result.ok) =>
        /\ \A i \in 1..Len(node.values) :
              EnumRecord.variants[i].docstring =
                  (IF node.values[i].docstring = None THEN None
                   ELSE Some(convert_docstring(node.values[i].docstring[1])))
        /\ entry = "B" =>
              EnumRecord.variants = ConvertEnum(node, ci0).res.value.variants

\* C6: the module_path of every returned record is the context's module path
\* at the time of the call, whatever the namespace and the declaration.
C6_ModulePath ==
    (Called /\ result.ok) => EnumRecord.module_path = ci0.module_path

C6_Witness ==
    /\ pc = "converted" /\ result.ok /\ entry = "C"
    /\ ci0.module_path = "crate_name"
    /\ ci0.namespace = "test"
    /\ EnumRecord.module_path = "crate_name"

\* C7: the record's docstring is None exactly when the declaration has no doc
\* comment, and in the enum block a variant's docstring is None exactly when
\* its literal has none; absence never becomes the empty string.
C7_DocstringAbsence ==
    (Called /\ result.ok) =>
        /\ EnumRecord.docstring = None <=> node.docstring = None
        /\ node.docstring = None => EnumRecord.docstring # Some(<<>>)
        /\ entry \in {"A", "B"} =>
              \A i \in 1..Len(node.values) :
                  /\ EnumRecord.variants[i].docstring = None
                        <=> node.values[i].docstring = None
                  /\ node.values[i].docstring = None
                        => EnumRecord.variants[i].docstring # Some(<<>>)

C7_Witness ==
    /\ pc = "converted" /\ result.ok /\ entry = "B"
    /\ node.docstring = None
    /\ Len(node.values) = 2
    /\ node.values[1].docstring = None
    /\ node.values[2].docstring # None
    /\ EnumRecord.docstring = None
    /\ EnumRecord.variants[1].docstring = None

\* C8: a conversion that must fail (inheritance, malformed attributes, a
\* member that is rejected) returns an error and nothing else and leaves the
\* registered items as they were; a record that is returned is complete.
C8_AllOrNothing ==
    Called =>
        LET mustFail ==
                \/ Malformed
                \/ /\ entry \in {"C", "D"}
                   /\ \/ node.inheritance # None
                      \/ \E i \in 1..Len(node.members) : Stops(node.members[i])
        IN /\ mustFail => ~result.ok
           /\ ~result.ok => (ErrorOnly /\ ci.items = ci0.items)
           /\ (result.ok /\ entry \in {"C", "D"}) =>
                 Len(EnumRecord.variants) = Len(node.members)
           /\ (result.ok /\ entry \in {"A", "B"}) =>
                 Len(EnumRecord.variants) = Len(node.values)

\* The failing member comes after an operation that was converted, and the
\* context already holds an item.
C8_Witness ==
    /\ pc = "failed" /\ entry \in {"C", "D"}
    /\ node.inheritance = None /\ ~Malformed
    /\ Len(node.members) = 2
    /\ ~Stops(node.members[1])
    /\ NonOperation(node.members[2])
    /\ Ev("delegate", 1) \in {log[i] : i \in 1..Len(log)}
    /\ ci0.items # {}
    /\ ci.items = ci0.items

\* The rank of a trace event in the order of the validation steps.
StepRank(e) ==
    CASE e.ev = "inheritance" -> 0
      [] e.ev = "attributes" -> 1
      [] e.ev = "module_path" -> 2
      [] OTHER -> 3

\* C9: in C and D the inheritance check comes first, then the attributes,
\* then the module path, then the members; inheritance wins over malformed
\* attributes, malformed attributes win over a non-operation member, and in
\* both cases no member reaches the delegated converter.
C9_ValidationOrder ==
    (Called /\ entry \in {"C", "D"}) =>
        /\ Len(log) > 0 /\ log[1] = Ev("inheritance", 0)
        /\ \A i, j \in 1..Len(log) : i < j => StepRank(log[i]) <= StepRank(log[j])
        /\ (node.inheritance # None /\ Malformed) => result = Err(InheritanceError)
        /\ (node.inheritance = None /\ Malformed) =>
              (~result.ok /\ result.error.kind = "MalformedAttributes")
        /\ (node.inheritance # None \/ Malformed) =>
              \A i \in 1..Len(log) : StepRank(log[i]) < 2

C9_Witness ==
    /\ pc = "converted" /\ entry \in {"C", "D"}
    /\ node.inheritance # None /\ Malformed
    /\ \E i \in 1..Len(node.members) : NonOperation(node.members[i])
    /\ result = Err(InheritanceError)
    /\ log = <<Ev("inheritance", 0)>>

\* C10: the members are processed in declaration order; the error is the one
\* of the first member that is not an operation or that the delegated
\* converter rejects; the members before it were converted, the members after
\* it are neither examined nor delegated.
C10_FirstErrorWins ==
    (Called /\ entry \in {"C", "D"} /\ node.inheritance = None /\ ~Malformed) =>
        LET ms == node.members
            k == FirstIndex(Stops, ms)
            last == IF k = 0 THEN Len(ms) ELSE k
        IN /\ SelectSeq(log, IsExamine) = [i \in 1..last |-> Ev("examine", i)]
           /\ \A i \in 1..Len(ms) :
                 (\E p \in 1..Len(log) : log[p] = Ev("delegate", i))
                     <=> (i <= last /\ ~NonOperation(ms[i]))
           /\ \A p, q \in 1..Len(log) :
                 (p < q /\ IsMemberEvent(log[p]) /\ IsMemberEvent(log[q]))
                     => log[p].i <= log[q].i
           /\ k = 0 => result.ok
           /\ k # 0 =>
                 /\ ErrorOnly
                 /\ result.error = IF NonOperation(ms[k])
                                   THEN MemberKindError(ms[k])
                                   ELSE OperationConvert(ms[k], ci0).res.error

\* Three members: the first converts, the second stops the traversal.
C10_Witness ==
    /\ pc = "converted" /\ entry \in {"C", "D"}
    /\ node.inheritance = None /\ ~Malformed
    /\ Len(node.members) = 3
    /\ ~Stops(node.members[1])
    /\ Stops(node.members[2])
    /\ Stops(node.members[3])
    /\ ~result.ok
    /\ SelectSeq(log, IsMemberEvent) # <<>>

====
